---- MODULE Spec2Model ----
(***************************************************************************)
(* Model of dj_serializers_to_ts.py: one run of main() over a tree of      *)
(* serializer source files, writing TypeScript interface files and the     *)
(* aggregating index file.                                                 *)
(*                                                                         *)
(* Strings are sequences of tokens ("Book", "Serializer", "[]", ".ts",     *)
(* "/", ...): str.replace removes every occurrence of a token, and         *)
(* concatenation is \o.  A path is a sequence of components, each a        *)
(* string; output paths are taken relative to the output root.  Directory  *)
(* and class names are Python identifiers, so ".ts", "[]" and "/" occur in *)
(* a string only where the program puts them.  A class is bound in its     *)
(* module under its own name.                                              *)
(***************************************************************************)
EXTENDS Integers, Sequences, FiniteSets, TLC

VARIABLES
    tree,                 \* the input: the source files under the source root
    run,                  \* "first" or "second" run of the tool on that input
    pc,                   \* "main", "done" (success printed) or "aborted"
    todo,                 \* source files the traversal has not yielded yet
    relative_dir,         \* relative_path.parent of the file being processed
    pending,              \* classes of that file not yet processed
    interface_locations,  \* interface name -> output path
    all_interfaces,       \* insertion-ordered: name, fields, out_path
    wi,                   \* entries of all_interfaces already written
    index_lines,          \* re-export paths collected so far
    indexWritten,         \* the index file has been written
    fs,                   \* output root: directories and file contents
    seen,                 \* history: the classes processed, in order
    written,              \* history: output paths written in this run
    startFs               \* history: fs when this run started

vars == <<tree, run, pc, todo, relative_dir, pending, interface_locations,
          all_interfaces, wi, index_lines, indexWritten, fs, seen,
          written, startFs>>

\* Largest number of source files in the input tree.
MaxFiles == 2

-----------------------------------------------------------------------------
(* Strings *)

\* Every token, in ascending order of the text it stands for (code points).
Alphabet ==
    <<"..", ".ts", "/", "Author", "Book", "Error", "Record<string, any>",
      "Serializer", "Tag", "[]", "any", "author", "authors", "boolean",
      "book", "books", "code", "detail", "meta", "name", "number", "pages",
      "parent", "string", "tag", "tags", "tempindex", "title", "uid", "v1", "v2">>

TokenRank(t) == CHOOSE i \in 1..Len(Alphabet) : Alphabet[i] = t

\* a < b for Python strings.
RECURSIVE StrLess(_, _)
StrLess(a, b) ==
    IF b = <<>> THEN FALSE
    ELSE IF a = <<>> THEN TRUE
    ELSE IF Head(a) = Head(b) THEN StrLess(Tail(a), Tail(b))
    ELSE TokenRank(Head(a)) < TokenRank(Head(b))

\* sorted(S) for a set of strings.
RECURSIVE Sorted(_)
Sorted(S) ==
    IF S = {} THEN <<>>
    ELSE LET m == CHOOSE x \in S : \A y \in S \ {x} : StrLess(x, y)
         IN  <<m>> \o Sorted(S \ {m})

\* s.replace(tok, "")
Replace(s, tok) == SelectSeq(s, LAMBDA t : t # tok)

Range(s) == {s[i] : i \in 1..Len(s)}

-----------------------------------------------------------------------------
(* Configuration *)

TEMP_INDEX_FILENAME == <<"tempindex", ".ts">>

OsSep == "/"

FIELD_TYPE_MAP ==
    [k \in {"CharField", "TextField", "SlugField", "EmailField", "URLField",
            "DateField", "DateTimeField", "TimeField", "ImageField",
            "FileField", "ChoiceField"} |-> <<"string">>]
    @@ [k \in {"BooleanField", "NullBooleanField"} |-> <<"boolean">>]
    @@ [k \in {"IntegerField", "SmallIntegerField", "BigIntegerField",
               "PositiveIntegerField", "PositiveSmallIntegerField",
               "FloatField", "DecimalField", "PrimaryKeyRelatedField"}
           |-> <<"number">>]
    @@ [k \in {"JSONField", "SerializerMethodField"} |-> <<"any">>]
    @@ ("DictField" :> <<"Record<string, any>">>)
    @@ ("ListField" :> <<"any", "[]">>)
    @@ ("ManyRelatedField" :> <<"number", "[]">>)

FieldTypeValues == {FIELD_TYPE_MAP[k] : k \in DOMAIN FIELD_TYPE_MAP}

-----------------------------------------------------------------------------
(* Input: serializer source files *)

\* A declared field.  kind "list": a ListSerializer whose child has class cls;
\* kind "serializer": a BaseSerializer of class cls; kind "plain": any other
\* field, of class cls.
Fld(name, kind, cls) == [name |-> name, kind |-> kind, cls |-> cls]

\* A class bound in a module.  serializer: issubclass(cls, BaseSerializer);
\* local: cls.__module__ is the module being scanned.
Cls(name, serializer, local, fields) ==
    [name |-> name, serializer |-> serializer, local |-> local,
     fields |-> fields]

AuthorSerializer == <<"Author", "Serializer">>
BookSerializer == <<"Book", "Serializer">>
TagSerializer == <<"Tag", "Serializer">>
ErrorSerializer == <<"Error", "Serializer">>
SerializerErrorSerializer == <<"Serializer", "Error", "Serializer">>
ModelSerializer == <<"Model", "Serializer">>

\* The classes of a module, in the order inspect.getmembers yields them
\* (sorted by name).
ModuleBodies ==
    { \* the two-class scenario: Author, and Book nesting a single Author
      << Cls(AuthorSerializer, TRUE, TRUE,
             <<Fld("name", "plain", <<"CharField">>)>>),
         Cls(BookSerializer, TRUE, TRUE,
             <<Fld("author", "serializer", AuthorSerializer),
               Fld("title", "plain", <<"CharField">>)>>) >>,
      \* another Book: a list of Authors, table kinds, an unrecognized kind
      << Cls(BookSerializer, TRUE, TRUE,
             <<Fld("authors", "list", AuthorSerializer),
               Fld("pages", "plain", <<"IntegerField">>),
               Fld("meta", "plain", <<"DictField">>),
               Fld("tags", "plain", <<"ListField">>),
               Fld("uid", "plain", <<"UUIDField">>)>>),
         Cls(ModelSerializer, TRUE, FALSE, <<>>) >>,
      \* another Author: a self reference, a list of Books, and a nested
      \* serializer that no file of the tree defines
      << Cls(AuthorSerializer, TRUE, TRUE,
             <<Fld("parent", "serializer", AuthorSerializer),
               Fld("books", "list", BookSerializer),
               Fld("tag", "serializer", TagSerializer)>>),
         Cls(<<"Path">>, FALSE, FALSE, <<>>) >>,
      \* two classes of one module whose derived names are both Error
      << Cls(ErrorSerializer, TRUE, TRUE,
             <<Fld("code", "plain", <<"IntegerField">>)>>),
         Cls(SerializerErrorSerializer, TRUE, TRUE,
             <<Fld("detail", "plain", <<"CharField">>),
               Fld("book", "serializer", BookSerializer)>>) >>,
      \* a module that defines no serializer
      << Cls(ModelSerializer, TRUE, FALSE, <<>>) >> }

\* Where a source file may be: its directory below the source root and its
\* name without ".py".
SourcePaths ==
    { [dir |-> <<>>, stem |-> "a"], [dir |-> <<>>, stem |-> "b"],
      [dir |-> <<<<"v1">>>>, stem |-> "a"],
      [dir |-> <<<<"v2">>>>, stem |-> "a"],
      [dir |-> <<>>, stem |-> "__init__"] }

SourceFile(p, body) == [dir |-> p.dir, stem |-> p.stem, body |-> body]

\* The input trees: at most MaxFiles files, no two at the same path.
Trees ==
    UNION { { {SourceFile(p, b[p]) : p \in P} : b \in [P -> ModuleBodies] }
            : P \in {Q \in SUBSET SourcePaths : Cardinality(Q) <= MaxFiles} }

\* file_path.name.startswith("__")
IsPrivate(f) == f.stem = "__init__"

-----------------------------------------------------------------------------
(* Loader and field mapper *)

\* name.replace("Serializer", "")
InterfaceName(clsName) == Replace(clsName, "Serializer")

\* find_serializer_classes: the (interface name, class) pairs of a module.
find_serializer_classes(f) ==
    LET q == SelectSeq(f.body, LAMBDA c : c.serializer /\ c.local)
    IN  [i \in 1..Len(q) |-> [name |-> InterfaceName(q[i].name), cls |-> q[i]]]

\* TsType with the "[]" of a list of serializers left out.
TsTypeNoBrackets(field) ==
    IF field.kind \in {"list", "serializer"} THEN InterfaceName(field.cls)
    ELSE IF field.cls[1] \in DOMAIN FIELD_TYPE_MAP
         THEN FIELD_TYPE_MAP[field.cls[1]]
         ELSE <<"any">>

\* The target type of one field (lines 60-67).
TsType(field) ==
    IF field.kind = "list" THEN InterfaceName(field.cls) \o <<"[]">>
    ELSE IF field.kind = "serializer" THEN InterfaceName(field.cls)
    ELSE IF field.cls[1] \in DOMAIN FIELD_TYPE_MAP
         THEN FIELD_TYPE_MAP[field.cls[1]]
         ELSE <<"any">>

\* extract_serializer_fields: field name -> target type, in declaration order.
extract_serializer_fields(cls) ==
    [i \in 1..Len(cls.fields) |->
        [name |-> cls.fields[i].name, type |-> TsType(cls.fields[i])]]

-----------------------------------------------------------------------------
(* Writer *)

Line(kind, a, b) == [kind |-> kind, a |-> a, b |-> b]

\* out_base / relative_path.parent / f"{interface_name}.ts"
OutPath(dir, name) == dir \o <<name \o <<".ts">>>>

Parent(path) == SubSeq(path, 1, Len(path) - 1)

RECURSIVE CommonLen(_, _)
CommonLen(a, b) ==
    IF a = <<>> \/ b = <<>> \/ Head(a) # Head(b) THEN 0
    ELSE 1 + CommonLen(Tail(a), Tail(b))

RECURSIVE Join(_)
Join(comps) ==
    IF Len(comps) = 1 THEN comps[1]
    ELSE comps[1] \o <<OsSep>> \o Join(Tail(comps))

\* os.path.relpath(path, start)
Relpath(path, start) ==
    LET k == CommonLen(path, start)
    IN  Join([i \in 1..(Len(start) - k) |-> <<"..">>]
             \o SubSeq(path, k + 1, Len(path)))

\* os.path.relpath(p, start).replace(".ts", "").replace(os.sep, "/")
RelImport(path, start) ==
    LET r == Replace(Relpath(path, start), ".ts")
    IN  [i \in 1..Len(r) |-> IF r[i] = OsSep THEN "/" ELSE r[i]]

\* The dependency names of a field mapping (main, lines 116-119).
Deps(fields) ==
    { Replace(fields[i].type, "[]") :
        i \in {j \in 1..Len(fields) :
                 fields[j].type \notin FieldTypeValues
                 /\ fields[j].type # <<"any">>} }

\* ImportLines without the skip of a self reference.
ImportLinesNoSelfSkip(name, deps, current_dir, locs) ==
    LET ds == SelectSeq(Sorted(deps), LAMBDA d : d \in DOMAIN locs)
    IN  [i \in 1..Len(ds) |->
            Line("import", ds[i], RelImport(locs[ds[i]], current_dir))]

\* The import lines write_ts_interface emits.
ImportLines(name, deps, current_dir, locs) ==
    LET ds == SelectSeq(Sorted(deps),
                        LAMBDA d : ~(d = name \/ d \notin DOMAIN locs))
    IN  [i \in 1..Len(ds) |->
            Line("import", ds[i], RelImport(locs[ds[i]], current_dir))]

\* The text write_ts_interface writes, line by line.
InterfaceText(name, fields, deps, current_dir, locs) ==
    ImportLines(name, deps, current_dir, locs)
    \o (IF deps # {} THEN <<Line("blank", <<>>, <<>>)>> ELSE <<>>)
    \o <<Line("open", name, <<>>)>>
    \o [i \in 1..Len(fields) |->
          Line("field", <<fields[i].name>>, fields[i].type)]
    \o <<Line("close", <<>>, <<>>)>>

\* IndexText with the lines in the order they were collected.
IndexTextUnsorted(lines) ==
    <<Line("comment", <<>>, <<>>), Line("blank", <<>>, <<>>)>>
    \o (IF lines = <<>> THEN <<Line("blank", <<>>, <<>>)>>
        ELSE [i \in 1..Len(lines) |-> Line("export", lines[i], <<>>)])

\* The text of the index file.
IndexText(lines) ==
    LET s == Sorted(Range(lines))
    IN  <<Line("comment", <<>>, <<>>), Line("blank", <<>>, <<>>)>>
        \o (IF s = <<>> THEN <<Line("blank", <<>>, <<>>)>>
            ELSE [i \in 1..Len(s) |-> Line("export", s[i], <<>>)])

\* Path.mkdir(parents=True, exist_ok=True)
Mkdir(dirs, d) == dirs \cup {SubSeq(d, 1, k) : k \in 0..Len(d)}

IndexPath == <<TEMP_INDEX_FILENAME>>

WriteFile(files, path, text) == (path :> text) @@ files

-----------------------------------------------------------------------------
(* main *)

NoLocations == [n \in {} |-> <<>>]

EmptyFs == [dirs |-> {}, files |-> [p \in {} |-> <<>>]]

Init ==
    /\ tree \in Trees
    /\ run = "first"
    /\ pc = "main"
    /\ todo = tree
    /\ relative_dir = <<>>
    /\ pending = <<>>
    /\ interface_locations = NoLocations
    /\ all_interfaces = <<>>
    /\ wi = 0
    /\ index_lines = <<>>
    /\ indexWritten = FALSE
    /\ fs = EmptyFs
    /\ seen = <<>>
    /\ written = <<>>
    /\ startFs = EmptyFs

\* The first loop is at its head: the traversal yields the next file.
AtLoopHead == pc = "main" /\ pending = <<>> /\ todo # {}

\* Put that keeps the entry a name already has.
PutFirstWins(seq, e) ==
    IF \E i \in 1..Len(seq) : seq[i].name = e.name THEN seq
    ELSE Append(seq, e)

\* all_interfaces[e.name] = (e.fields, e.out_path)
Put(seq, e) ==
    IF \E i \in 1..Len(seq) : seq[i].name = e.name
    THEN [i \in 1..Len(seq) |-> IF seq[i].name = e.name THEN e ELSE seq[i]]
    ELSE Append(seq, e)

\* Lines 103-105: a file whose name starts with "__" is passed over.
SkipPrivate(f) ==
    /\ AtLoopHead /\ f \in todo /\ IsPrivate(f)
    /\ todo' = todo \ {f}
    /\ UNCHANGED <<tree, run, pc, relative_dir, pending, interface_locations,
                   all_interfaces, wi, index_lines, indexWritten, fs, seen,
                   written, startFs>>

\* Lines 106-109: the file is loaded and its qualifying classes found.
LoadFile(f) ==
    /\ AtLoopHead /\ f \in todo /\ ~IsPrivate(f)
    /\ todo' = todo \ {f}
    /\ relative_dir' = f.dir
    /\ pending' = find_serializer_classes(f)
    /\ UNCHANGED <<tree, run, pc, interface_locations, all_interfaces, wi,
                   index_lines, indexWritten, fs, seen, written, startFs>>

\* Lines 72-74: executing the file raises; nothing catches it.
LoadFault(f) ==
    /\ AtLoopHead /\ f \in todo /\ ~IsPrivate(f)
    /\ pc' = "aborted"
    /\ UNCHANGED <<tree, run, todo, relative_dir, pending,
                   interface_locations, all_interfaces, wi, index_lines,
                   indexWritten, fs, seen, written, startFs>>

\* Lines 109-113: one class of the loaded file is mapped and recorded.
Extract ==
    /\ pc = "main" /\ pending # <<>>
    /\ LET interface_name == Head(pending).name
           fields == extract_serializer_fields(Head(pending).cls)
           out_path == OutPath(relative_dir, interface_name)
       IN  /\ interface_locations' =
                 (interface_name :> out_path) @@ interface_locations
           /\ all_interfaces' =
                 Put(all_interfaces,
                     [name |-> interface_name, fields |-> fields,
                      out_path |-> out_path])
    /\ pending' = Tail(pending)
    /\ seen' = Append(seen, [name |-> Head(pending).name,
                             cls |-> Head(pending).cls,
                             dir |-> relative_dir])
    /\ UNCHANGED <<tree, run, pc, todo, relative_dir, wi, index_lines,
                   indexWritten, fs, written, startFs>>

\* AtWrite that does not stop after a fault.
AtWriteRetry ==
    /\ pc \in {"main", "aborted"} /\ todo = {} /\ pending = <<>>
    /\ wi < Len(all_interfaces)

\* AtWrite that writes an entry as soon as it is recorded.
AtWriteStreaming ==
    /\ pc = "main" /\ pending = <<>>
    /\ wi < Len(all_interfaces)

\* The second loop is at its head with an entry left to write.
AtWrite ==
    /\ pc = "main" /\ todo = {} /\ pending = <<>>
    /\ wi < Len(all_interfaces)

\* The text lines 116-120 write for entry e.
TextOf(e, locs) ==
    InterfaceText(e.name, e.fields, Deps(e.fields), Parent(e.out_path), locs)

\* WriteInterface that drops the written name from interface_locations.
WriteInterfaceForgets ==
    /\ pc = "main" /\ todo = {} /\ pending = <<>>
    /\ wi < Len(all_interfaces)
    /\ LET e == all_interfaces[wi + 1]
       IN  /\ fs' = [dirs |-> Mkdir(fs.dirs, Parent(e.out_path)),
                     files |-> (e.out_path :>
                                  InterfaceText(e.name, e.fields,
                                                Deps(e.fields),
                                                Parent(e.out_path),
                                                interface_locations))
                               @@ fs.files]
           /\ index_lines' = Append(index_lines, RelImport(e.out_path, <<>>))
           /\ written' = Append(written, e.out_path)
           /\ interface_locations' =
                 [n \in DOMAIN interface_locations \ {e.name} |->
                     interface_locations[n]]
    /\ wi' = wi + 1
    /\ UNCHANGED <<tree, run, pc, todo, relative_dir, pending,
                   all_interfaces, indexWritten, seen, startFs>>

\* Lines 115-122: one interface file is written and its index line kept.
WriteInterface ==
    /\ AtWrite
    /\ LET e == all_interfaces[wi + 1]
       IN  /\ fs' = [dirs |-> Mkdir(fs.dirs, Parent(e.out_path)),
                     files |-> WriteFile(fs.files, e.out_path,
                                         TextOf(e, interface_locations))]
           /\ index_lines' = Append(index_lines, RelImport(e.out_path, <<>>))
           /\ written' = Append(written, e.out_path)
    /\ wi' = wi + 1
    /\ UNCHANGED <<tree, run, pc, todo, relative_dir, pending,
                   interface_locations, all_interfaces, indexWritten, seen,
                   startFs>>

\* What a write of text to path leaves behind when it raises: mkdir raised,
\* open raised, or a write raised after k lines.
FaultyWrite(path, text) ==
    { fs,
      [fs EXCEPT !.dirs = Mkdir(fs.dirs, Parent(path))] }
    \cup { [dirs |-> Mkdir(fs.dirs, Parent(path)),
            files |-> WriteFile(fs.files, path, SubSeq(text, 1, k))]
          : k \in 0..(Len(text) - 1) }

\* Lines 82-95 raise: the run ends there.
WriteInterfaceFault ==
    /\ AtWrite
    /\ LET e == all_interfaces[wi + 1]
       IN  fs' \in FaultyWrite(e.out_path, TextOf(e, interface_locations))
    /\ pc' = "aborted"
    /\ UNCHANGED <<tree, run, todo, relative_dir, pending,
                   interface_locations, all_interfaces, wi, index_lines,
                   indexWritten, seen, written, startFs>>

\* AtIndex that does not wait for the second loop to end.
AtIndexEarly ==
    /\ pc = "main" /\ todo = {} /\ pending = <<>> /\ ~indexWritten

\* The second loop has ended and the index is to be written.
AtIndex ==
    /\ pc = "main" /\ todo = {} /\ pending = <<>>
    /\ wi = Len(all_interfaces) /\ ~indexWritten

\* Lines 124-127: the index file is written.
WriteIndex ==
    /\ AtIndex
    /\ fs' = [dirs |-> Mkdir(fs.dirs, <<>>),
              files |-> WriteFile(fs.files, IndexPath, IndexText(index_lines))]
    /\ indexWritten' = TRUE
    /\ UNCHANGED <<tree, run, pc, todo, relative_dir, pending,
                   interface_locations, all_interfaces, wi, index_lines,
                   seen, written, startFs>>

\* Lines 124-127 raise.
WriteIndexFault ==
    /\ AtIndex
    /\ fs' \in FaultyWrite(IndexPath, IndexText(index_lines))
    /\ pc' = "aborted"
    /\ UNCHANGED <<tree, run, todo, relative_dir, pending,
                   interface_locations, all_interfaces, wi, index_lines,
                   indexWritten, seen, written, startFs>>

\* Line 129: the success message; main returns.
PrintSuccess ==
    /\ pc = "main" /\ indexWritten
    /\ pc' = "done"
    /\ UNCHANGED <<tree, run, todo, relative_dir, pending,
                   interface_locations, all_interfaces, wi, index_lines,
                   indexWritten, fs, seen, written, startFs>>

\* The tool is started again, in a fresh process, on the unchanged input and
\* the output the first run left.
Rerun ==
    /\ pc = "done" /\ run = "first"
    /\ run' = "second"
    /\ pc' = "main"
    /\ todo' = tree
    /\ relative_dir' = <<>>
    /\ pending' = <<>>
    /\ interface_locations' = NoLocations
    /\ all_interfaces' = <<>>
    /\ wi' = 0
    /\ index_lines' = <<>>
    /\ indexWritten' = FALSE
    /\ seen' = <<>>
    /\ written' = <<>>
    /\ startFs' = fs
    /\ UNCHANGED <<tree, fs>>

Next ==
    \/ \E f \in todo : SkipPrivate(f)
    \/ \E f \in todo : LoadFile(f)
    \/ \E f \in todo : LoadFault(f)
    \/ Extract
    \/ WriteInterface
    \/ WriteInterfaceFault
    \/ WriteIndex
    \/ WriteIndexFault
    \/ PrintSuccess

Spec == Init /\ [][Next]_vars

NextTwice == Next \/ Rerun

SpecTwice == Init /\ [][NextTwice]_vars

-----------------------------------------------------------------------------
(* Properties *)

\* The entry of all_interfaces for a name.
Entry(n) ==
    all_interfaces[CHOOSE i \in 1..Len(all_interfaces) :
                      all_interfaces[i].name = n]

Names == {all_interfaces[i].name : i \in 1..Len(all_interfaces)}

\* The text of a path, as one string.
PathText(path) == Join(path)

Body(path, kind) == SelectSeq(fs.files[path], LAMBDA l : l.kind = kind)

\* The qualifying classes of the tree, each with the file that defines it.
Discovered ==
    UNION { { [dir |-> f.dir, stem |-> f.stem, cls |-> c.name]
              : c \in {x \in Range(f.body) : x.serializer /\ x.local} }
            : f \in {g \in tree : ~IsPrivate(g)} }

\* A class name with the suffix "Serializer" removed.
StripSuffix(n) ==
    IF n # <<>> /\ n[Len(n)] = "Serializer" THEN SubSeq(n, 1, Len(n) - 1)
    ELSE n

\* C1: a completed run has written exactly one interface file per qualifying
\* class discovered, named after the class with the suffix stripped, so the
\* number of interface files equals the number of classes.
C1_OneFilePerClass ==
    pc = "done" =>
        /\ Cardinality(Range(written)) = Cardinality(Discovered)
        /\ \A d \in Discovered :
              OutPath(d.dir, StripSuffix(d.cls)) \in Range(written)

\* C2: a second complete run on the unchanged input, whatever order the
\* traversal yields the files in, leaves every output file as the first run
\* wrote it.
C2_Idempotent ==
    (run = "second" /\ pc = "done") => fs = startFs

\* C3: once written, the index file is the warning comment followed by
\* exactly one re-export line per interface file written in the run, each
\* line referring to a written file, in strictly ascending order.
C3_IndexExact ==
    indexWritten =>
        LET text == fs.files[IndexPath]
            ex == Body(IndexPath, "export")
        IN  /\ text[1].kind = "comment"
            /\ \A i \in 2..Len(text) : text[i].kind \in {"blank", "export"}
            /\ Len(ex) = Len(written)
            /\ \A p \in Range(written) :
                  Cardinality({i \in 1..Len(ex) :
                      ex[i].a \o <<".ts">> = PathText(p)}) = 1
            /\ \A i \in 1..Len(ex) :
                  \E p \in Range(written) : ex[i].a \o <<".ts">> = PathText(p)
            /\ \A i \in 1..Len(ex), j \in 1..Len(ex) :
                  i < j => StrLess(ex[i].a, ex[j].a)

C3_Witness ==
    /\ pc = "done"
    /\ Len(written) >= 3
    /\ \E i \in 1..Len(index_lines), j \in 1..Len(index_lines) :
          i < j /\ StrLess(index_lines[j], index_lines[i])

PrimitiveNames ==
    {<<"string">>, <<"number">>, <<"boolean">>, <<"any">>,
     <<"Record<string, any>">>}

\* The names a field mapping refers to that are no primitive type.
Referenced(fields) ==
    {Replace(fields[i].type, "[]") : i \in 1..Len(fields)} \ PrimitiveNames

\* C4: every interface file written has exactly one import line per
\* referenced non-primitive name that is not its own name and has a known
\* location, and none for any other name; a field that is a single nested
\* serializer is emitted with the nested class's derived name as its type.
C4_Imports ==
    \A k \in 1..Len(written) :
        LET e == all_interfaces[k]
            imp == Body(e.out_path, "import")
            fld == Body(e.out_path, "field")
            want == {d \in Referenced(e.fields) :
                        d # e.name /\ d \in DOMAIN interface_locations}
            src == seen[CHOOSE i \in 1..Len(seen) :
                           /\ seen[i].name = e.name
                           /\ \A j \in (i + 1)..Len(seen) :
                                 seen[j].name # e.name].cls
        IN  /\ written[k] = e.out_path
            /\ {imp[i].a : i \in 1..Len(imp)} = want
            /\ Len(imp) = Cardinality(want)
            /\ Len(fld) = Len(src.fields)
            /\ \A i \in 1..Len(fld) :
                  src.fields[i].kind = "serializer" =>
                     /\ fld[i].a = <<src.fields[i].name>>
                     /\ fld[i].b = InterfaceName(src.fields[i].cls)
                     /\ ( /\ fld[i].b # e.name
                          /\ fld[i].b \in DOMAIN interface_locations )
                        => \E m \in 1..Len(imp) : imp[m].a = fld[i].b

\* A file with an import, a skipped self reference and a dependency whose
\* location is unknown has been written.
C4_Witness ==
    \E k \in 1..Len(written) :
        LET e == all_interfaces[k]
        IN  /\ Body(e.out_path, "import") # <<>>
            /\ e.name \in Referenced(e.fields)
            /\ \E d \in Referenced(e.fields) :
                  d \notin DOMAIN interface_locations

Unloaded == {f \in todo : ~IsPrivate(f)}

\* C6 as stated: no class has its fields extracted before every source file
\* is loaded; no file is written before all fields are extracted; the index
\* is written after all interface files.
C6_FourPhases ==
    /\ seen # <<>> => Unloaded = {}
    /\ (wi > 0 \/ fs # startFs) => (todo = {} /\ pending = <<>>)
    /\ indexWritten => Len(written) = Len(all_interfaces)

\* C6 as the code has it: a file is loaded only when the classes of the
\* file before it have been extracted; nothing is written before every file
\* is loaded and every class extracted; the index is written after every
\* interface file.
C6_Phases ==
    [][ /\ todo' # todo => pending = <<>>
        /\ fs' # fs => (todo = {} /\ pending = <<>> /\ seen' = seen)
        /\ (indexWritten' /\ ~indexWritten) =>
              (wi = Len(all_interfaces) /\ Len(written) = Len(all_interfaces))
        /\ indexWritten => wi' = wi ]_vars

\* Two files with classes were processed one after the other, then written.
C6_Witness ==
    /\ pc = "done"
    /\ \E i \in 1..Len(seen), j \in 1..Len(seen) : seen[i].dir # seen[j].dir
    /\ Len(written) >= 2

\* C7: after a fault no step of the run executes, and the step of the fault
\* leaves every file written before it with the text it was given.
C7_FaultAborts ==
    [][ /\ pc = "aborted" => vars' = vars
        /\ (pc = "main" /\ pc' = "aborted") =>
              /\ <<todo, pending, wi, indexWritten, written, all_interfaces,
                   index_lines>>' =
                 <<todo, pending, wi, indexWritten, written, all_interfaces,
                   index_lines>>
              /\ \A k \in 1..Len(written) :
                    /\ written[k] \in DOMAIN fs'.files
                    /\ fs'.files[written[k]] =
                          TextOf(all_interfaces[k], interface_locations) ]_vars

\* A write faulted after an earlier file had been written in full.
C7_Witness ==
    /\ pc = "aborted"
    /\ Len(written) >= 1
    /\ fs # startFs
    /\ ~indexWritten

\* C8: from the first write of an interface file on, interface_locations
\* does not change, and at every write it holds every name to be written.
C8_LocationsFrozen ==
    [][ /\ (wi > 0 \/ wi' > 0) => interface_locations' = interface_locations
        /\ wi' > wi => DOMAIN interface_locations = Names ]_vars

C8_Witness ==
    /\ pc = "done"
    /\ Len(written) >= 2
    /\ Cardinality(DOMAIN interface_locations) >= 2

\* The last class processed under a name.
LastSeen(n) ==
    seen[CHOOSE i \in 1..Len(seen) :
            /\ seen[i].name = n
            /\ \A j \in (i + 1)..Len(seen) : seen[j].name # n]

\* C9: a name has one entry, that of the class processed last under it, and
\* interface_locations agrees with it; a completed run has written one file
\* for the name, at that location and with that mapping, and every import of
\* the name points to it.
C9_LastWins ==
    /\ DOMAIN interface_locations = Names
    /\ Names = {seen[i].name : i \in 1..Len(seen)}
    /\ Len(all_interfaces) = Cardinality(Names)
    /\ \A n \in Names :
          /\ interface_locations[n] = Entry(n).out_path
          /\ Entry(n).out_path = OutPath(LastSeen(n).dir, n)
          /\ Entry(n).fields = extract_serializer_fields(LastSeen(n).cls)
    /\ pc = "done" =>
          \A n \in Names :
             /\ Cardinality({k \in 1..Len(written) :
                   written[k][Len(written[k])] = n \o <<".ts">>}) = 1
             /\ Entry(n).out_path \in Range(written)
             /\ Body(Entry(n).out_path, "field") =
                   [i \in 1..Len(LastSeen(n).cls.fields) |->
                       Line("field", <<LastSeen(n).cls.fields[i].name>>,
                            TsType(LastSeen(n).cls.fields[i]))]
             /\ \A q \in Range(written) :
                   \A i \in 1..Len(fs.files[q]) :
                      LET l == fs.files[q][i]
                      IN  (l.kind = "import" /\ l.a = n) =>
                             l.b = RelImport(Entry(n).out_path, Parent(q))

\* Two classes in different directories collided on a name that a third
\* interface imports, and the run completed.
C9_Witness ==
    /\ pc = "done"
    /\ \E i \in 1..Len(seen), j \in 1..Len(seen) :
          /\ i < j
          /\ seen[i].name = seen[j].name
          /\ seen[i].dir # seen[j].dir
          /\ seen[i].cls # seen[j].cls
          /\ \E q \in Range(written) :
                \E m \in 1..Len(fs.files[q]) :
                   /\ fs.files[q][m].kind = "import"
                   /\ fs.files[q][m].a = seen[i].name

====
